---- MODULE Spec2Model ----
(***************************************************************************)
(* A model of src/youtube_utils.py: the YouTubeAPI session object, its     *)
(* authenticate() method and its three remote operations upload_video,     *)
(* get_channel_stats and list_videos.  The vendor client library (the      *)
(* OAuth flow, the discovery client, the resumable-upload transport) is    *)
(* the environment: every result it can hand back is a nondeterministic    *)
(* input of the action that consumes it.                                   *)
(***************************************************************************)
EXTENDS Integers, Sequences, FiniteSets, TLC

VARIABLES
    credentials,   \* self.credentials: None or Some(identity of the credentials object)
    youtube,       \* self.youtube: None or Some(identity of the client handle)
    nCreds,        \* credentials objects handed out so far by run_local_server
    nBuilt,        \* client handles handed out so far by build
    pc,            \* "idle", or "upload_loop" while upload_video is in its while loop
    op,            \* the method invoked last (running, or finished)
    args,          \* the arguments it was invoked with
    outcome,       \* "none", "running", "returned" or the exception raised
    result,        \* what it returned: None (nothing) or Some(value)
    calls,         \* the collaborator calls it made, in order, with their results
    printed        \* the lines it wrote to standard output, in order

vars == <<credentials, youtube, nCreds, nBuilt, pc, op, args, outcome, result,
          calls, printed>>

\* ---------------------------------------------------------------- bounds
\* authenticate() calls that reach the consent flow, at most
MaxAuth == 2
\* next_chunk() calls of one upload, at most: the transport ends the upload
\* (final response or failure) at the last one
MaxChunks == 4

\* ------------------------------------------------------- Python values
None == [some |-> FALSE]
Some(v) == [some |-> TRUE, val |-> v]

\* a keyword argument left out of the call takes the default of the signature
OrDefault(a, d) == IF a = None THEN d ELSE a.val

\* ------------------------------------------------------ the environment
\* the local filesystem, as os.path.exists sees it
ExistingFiles == {"video.mp4"}
Paths == {"video.mp4", "missing.mp4"}
Titles == {"t", "My video"}
Descriptions == {"d"}
PrivacyArgs == {None, Some("unlisted"), Some("bogus")}
TagsArgs == {None, Some(<<>>), Some(<<"a", "b">>)}
MaxResultsArgs == {None, Some(0), Some(5), Some(100)}

\* status.progress() in hundredths of the file
ProgressValues == {29, 50, 90}
VideoResponses == {[id |-> "abc123"], [id |-> "xyz789"]}

\* what request.next_chunk() can do: hand back (status, None) while the
\* upload goes on, hand back (None, response) when it is complete, or raise
ProgressOnly(p) == [kind |-> "pair", status |-> Some(p), response |-> None]
Final(r) == [kind |-> "pair", status |-> None, response |-> Some(r)]
ChunkFailure == [kind |-> "error", status |-> None, response |-> None]
ChunkResults ==
    {ProgressOnly(p) : p \in ProgressValues}
        \cup {Final(r) : r \in VideoResponses} \cup {ChunkFailure}

\* what request.execute() can hand back for channels().list
Stats1 == [viewCount |-> "100", subscriberCount |-> "10"]
Stats2 == [viewCount |-> "7", subscriberCount |-> "0", videoCount |-> "3"]
ChannelItem1 == [id |-> "UC1", statistics |-> Stats1]
ChannelItem2 == [id |-> "UC2", statistics |-> Stats2]
ChannelItemBare == [id |-> "UC3"]
ChannelResponses ==
    { [kind |-> "youtube#channelListResponse"],
      [kind |-> "youtube#channelListResponse", items |-> <<>>],
      [kind |-> "youtube#channelListResponse", items |-> <<ChannelItem1>>],
      [kind |-> "youtube#channelListResponse", items |-> <<ChannelItem2, ChannelItem1>>],
      [kind |-> "youtube#channelListResponse", items |-> <<ChannelItemBare, ChannelItem1>>] }

\* what request.execute() can hand back for search().list
VideoItem1 == [id |-> "v1", snippet |-> [title |-> "first"]]
VideoItem2 == [id |-> "v2", snippet |-> [title |-> "second"]]
SearchResponses ==
    { [kind |-> "youtube#searchListResponse"],
      [kind |-> "youtube#searchListResponse", items |-> <<>>],
      [kind |-> "youtube#searchListResponse", items |-> <<VideoItem1, VideoItem2>>],
      [kind |-> "youtube#searchListResponse", items |-> <<VideoItem2, VideoItem1>>] }

\* request.execute() raising
ExecuteFailure == [error |-> "HttpError"]

RemoteOps == {"upload_video", "get_channel_stats", "list_videos"}

\* ------------------------------------------------------------- __init__
SCOPES == <<"https://www.googleapis.com/auth/youtube.upload",
            "https://www.googleapis.com/auth/youtube.readonly">>
ClientSecretsFile == "path/to/your/client_secrets.json"

Init ==
    /\ credentials = None
    /\ youtube = None
    /\ nCreds = 0
    /\ nBuilt = 0
    /\ pc = "idle"
    /\ op = "none"
    /\ args = <<>>
    /\ outcome = "none"
    /\ result = None
    /\ calls = <<>>
    /\ printed = <<>>

\* ---------------------------------------------------------- authenticate
\* where authenticate() stops: at from_client_secrets_file, at
\* run_local_server, at build, or nowhere
AuthOutcomes == {"bad_secrets", "consent_denied", "build_failed", "ok"}

\* the collaborator calls authenticate() makes before it stops
AuthCalls(o) ==
    LET load == [fn |-> "InstalledAppFlow.from_client_secrets_file",
                 file |-> ClientSecretsFile, scopes |-> SCOPES]
        consent == [fn |-> "flow.run_local_server", port |-> 0]
        bld == [fn |-> "build", service |-> "youtube", version |-> "v3"]
    IN  CASE o = "bad_secrets" -> <<load>>
          [] o = "consent_denied" -> <<load, consent>>
          [] OTHER -> <<load, consent, bld>>

\* self.credentials after authenticate(): assigned as soon as the consent
\* flow hands the credentials back
AuthCredentials(o, cur, fresh) ==
    IF o \in {"build_failed", "ok"} THEN Some(fresh) ELSE cur

\* AuthYoutube with a failed authenticate() dropping the handle it held
AuthYoutube_ClearsOnFailure(o, cur, fresh) ==
    IF o = "ok" THEN Some(fresh) ELSE None

\* self.youtube after authenticate(): assigned only when build returns
AuthYoutube(o, cur, fresh) ==
    IF o = "ok" THEN Some(fresh) ELSE cur

AuthRaises(o) ==
    CASE o = "bad_secrets" -> "FileNotFoundError"
      [] o = "consent_denied" -> "AccessDeniedError"
      [] o = "build_failed" -> "HttpError"
      [] OTHER -> "returned"

Authenticate ==
    /\ pc = "idle"
    /\ nCreds < MaxAuth
    /\ \E o \in AuthOutcomes :
        /\ credentials' = AuthCredentials(o, credentials, nCreds + 1)
        /\ youtube' = AuthYoutube(o, youtube, nBuilt + 1)
        /\ nCreds' = IF o \in {"build_failed", "ok"} THEN nCreds + 1 ELSE nCreds
        /\ nBuilt' = IF o = "ok" THEN nBuilt + 1 ELSE nBuilt
        /\ op' = "authenticate"
        /\ args' = <<>>
        /\ outcome' = AuthRaises(o)
        /\ result' = None
        /\ calls' = AuthCalls(o)
        /\ printed' = <<>>
        /\ pc' = "idle"

\* ------------------------------------------------------------ the guards
\* NotAuthenticated testing the credentials instead of the client handle
NotAuthenticated_ByCredentials == credentials = None

\* `if not self.youtube`
NotAuthenticated == youtube = None

\* FileMissing with the existence test left out
FileMissing_Never(file_path) == FALSE

\* `if not os.path.exists(file_path)`
FileMissing(file_path) == file_path \notin ExistingFiles

\* ---------------------------------------------------------- upload_video
UploadArgs ==
    [file_path : Paths, title : Titles, description : Descriptions,
     privacy_status : PrivacyArgs, tags : TagsArgs]

\* `tags or []`: None and the empty list both give the empty list
TagsOrEmpty(tags) ==
    IF tags = None THEN <<>> ELSE IF tags.val = <<>> THEN <<>> ELSE tags.val

\* Body with the privacy status hard-wired and the tags left out
Body_Defaults(title, description, privacy_status, tags) ==
    [snippet |-> [title |-> title,
                  description |-> description,
                  tags |-> <<>>,
                  categoryId |-> "22"],
     status |-> [privacyStatus |-> "private",
                 selfDeclaredMadeForKids |-> FALSE]]

\* the request body; privacy_status is the bound parameter, tags the raw one
Body(title, description, privacy_status, tags) ==
    [snippet |-> [title |-> title,
                  description |-> description,
                  tags |-> TagsOrEmpty(tags),
                  categoryId |-> "22"],
     status |-> [privacyStatus |-> privacy_status,
                 selfDeclaredMadeForKids |-> FALSE]]

\* MediaFileUpload(...) and self.youtube.videos().insert(...)
InsertRequest(body, file_path) ==
    [fn |-> "videos.insert",
     part |-> "snippet,status",
     body |-> body,
     media_body |-> [file |-> file_path, mimetype |-> "video/*", resumable |-> TRUE]]

\* upload_video up to the loop: the two guards, the body, the request
UploadVideo ==
    /\ pc = "idle"
    /\ \E a \in UploadArgs :
        /\ op' = "upload_video"
        /\ args' = a
        /\ result' = None
        /\ printed' = <<>>
        /\ UNCHANGED <<credentials, youtube, nCreds, nBuilt>>
        /\ IF NotAuthenticated
             THEN /\ outcome' = "ValueError"
                  /\ calls' = <<>>
                  /\ pc' = "idle"
             ELSE IF FileMissing(a.file_path)
             THEN /\ outcome' = "FileNotFoundError"
                  /\ calls' = <<>>
                  /\ pc' = "idle"
             ELSE /\ outcome' = "running"
                  /\ calls' = <<InsertRequest(
                                   Body(a.title, a.description,
                                        OrDefault(a.privacy_status, "private"),
                                        a.tags),
                                   a.file_path)>>
                  /\ pc' = "upload_loop"

\* int(status.progress() * 100), the progress p given in hundredths: the
\* double p/100 times 100 falls just short of p for 29, 57 and 58, and int()
\* truncates
PercentOf(p) == IF p \in {29, 57, 58} THEN p - 1 ELSE p

ProgressLine(n) == <<"Upload progress: ", n, "%">>

\* ChunkPrints with a line for the completed upload too
ChunkPrints_AlsoAtEnd(r) ==
    IF r.kind = "pair" /\ r.status # None
      THEN <<ProgressLine(PercentOf(r.status.val))>>
      ELSE <<ProgressLine(100)>>

\* `if status: print(...)`
ChunkPrints(r) ==
    IF r.kind = "pair" /\ r.status # None
      THEN <<ProgressLine(PercentOf(r.status.val))>>
      ELSE <<>>

\* ChunkOutcome with an `if` where the `while` is: one chunk, then return
ChunkOutcome_OnePass(r) ==
    IF r.kind = "error" THEN "HttpError" ELSE "returned"

\* ChunkOutcome with a failed chunk swallowed and tried again
ChunkOutcome_Retry(r) ==
    IF r.kind = "error" THEN "running"
    ELSE IF r.response # None THEN "returned"
    ELSE "running"

\* one pass of `while response is None`: next_chunk raises, or the loop
\* test finds a response and upload_video returns it, or it goes round again
ChunkOutcome(r) ==
    IF r.kind = "error" THEN "HttpError"
    ELSE IF r.response # None THEN "returned"
    ELSE "running"

\* the next_chunk calls made so far by the running upload
ChunkCalls == SelectSeq(calls, LAMBDA c : c.fn = "next_chunk")

NextChunk ==
    /\ pc = "upload_loop"
    /\ \E r \in ChunkResults :
        /\ Len(ChunkCalls) + 1 < MaxChunks \/ r.kind = "error" \/ r.response # None
        /\ calls' = Append(calls, [fn |-> "next_chunk", result |-> r])
        /\ outcome' = ChunkOutcome(r)
        /\ printed' = IF ChunkOutcome(r) = "HttpError"
                        THEN printed ELSE printed \o ChunkPrints(r)
        /\ result' = IF ChunkOutcome(r) = "returned" THEN r.response ELSE None
        /\ pc' = IF ChunkOutcome(r) = "running" THEN "upload_loop" ELSE "idle"
        /\ UNCHANGED <<credentials, youtube, nCreds, nBuilt, op, args>>

\* ----------------------------------------------------- get_channel_stats
ChannelsRequest == [fn |-> "channels.list", part |-> "statistics", mine |-> TRUE]

Execute(resp) == [fn |-> "execute", response |-> resp]

EmptyDict == [k \in {} |-> k]

\* `'items' in response and response['items']`
HasItems(resp) == "items" \in DOMAIN resp /\ resp.items # <<>>

\* what the lines after execute() do with the response
ChannelStatsOutcome(resp) ==
    IF resp = ExecuteFailure THEN "HttpError"
    ELSE IF HasItems(resp) /\ "statistics" \notin DOMAIN resp.items[1] THEN "KeyError"
    ELSE "returned"

\* ChannelStatsResult reading the last item instead of the first
ChannelStatsResult_LastItem(resp) ==
    IF HasItems(resp)
      THEN Some(resp.items[Len(resp.items)].statistics) ELSE Some(EmptyDict)

ChannelStatsResult(resp) ==
    IF HasItems(resp) THEN Some(resp.items[1].statistics) ELSE Some(EmptyDict)

GetChannelStats ==
    /\ pc = "idle"
    /\ op' = "get_channel_stats"
    /\ args' = <<>>
    /\ printed' = <<>>
    /\ pc' = "idle"
    /\ UNCHANGED <<credentials, youtube, nCreds, nBuilt>>
    /\ IF NotAuthenticated
         THEN /\ outcome' = "ValueError"
              /\ calls' = <<>>
              /\ result' = None
         ELSE \E resp \in ChannelResponses \cup {ExecuteFailure} :
              /\ calls' = <<ChannelsRequest, Execute(resp)>>
              /\ outcome' = ChannelStatsOutcome(resp)
              /\ result' = IF ChannelStatsOutcome(resp) = "returned"
                             THEN ChannelStatsResult(resp) ELSE None

\* ------------------------------------------------------------ list_videos
DefaultMaxResults == 50

\* SearchRequest clamping the cap to the API's page size
SearchRequest_Clamped(max_results) ==
    [fn |-> "search.list", part |-> "snippet", forMine |-> TRUE,
     type |-> "video",
     maxResults |-> IF max_results > DefaultMaxResults
                      THEN DefaultMaxResults ELSE max_results]

SearchRequest(max_results) ==
    [fn |-> "search.list", part |-> "snippet", forMine |-> TRUE,
     type |-> "video", maxResults |-> max_results]

\* response.get('items', [])
ItemsOrEmpty(resp) == IF "items" \in DOMAIN resp THEN resp.items ELSE <<>>

ListVideos ==
    /\ pc = "idle"
    /\ \E n \in MaxResultsArgs :
        /\ op' = "list_videos"
        /\ args' = [max_results |-> n]
        /\ printed' = <<>>
        /\ pc' = "idle"
        /\ UNCHANGED <<credentials, youtube, nCreds, nBuilt>>
        /\ IF NotAuthenticated
             THEN /\ outcome' = "ValueError"
                  /\ calls' = <<>>
                  /\ result' = None
             ELSE \E resp \in SearchResponses \cup {ExecuteFailure} :
                  /\ calls' = <<SearchRequest(OrDefault(n, DefaultMaxResults)),
                                Execute(resp)>>
                  /\ outcome' = IF resp = ExecuteFailure THEN "HttpError" ELSE "returned"
                  /\ result' = IF resp = ExecuteFailure
                                 THEN None ELSE Some(ItemsOrEmpty(resp))

\* ------------------------------------------------------ the specification
Next ==
    \/ Authenticate
    \/ UploadVideo
    \/ NextChunk
    \/ GetChannelStats
    \/ ListVideos

Spec == Init /\ [][Next]_vars

\* ================================================================ claims
\* the results the transport has handed to the running or finished upload
ChunkHistory == [i \in 1..Len(ChunkCalls) |-> ChunkCalls[i].result]

\* C1: upload_video, get_channel_stats and list_videos, invoked with any
\* arguments on a session whose self.youtube is None, raise ValueError, and
\* no collaborator call has been made when they do.
C1_UnauthenticatedFailsFirst ==
    (op \in RemoteOps /\ youtube = None) =>
        (outcome = "ValueError" /\ calls = <<>> /\ pc = "idle" /\ result = None)

C1_Witness ==
    /\ op = "upload_video" /\ youtube = None /\ credentials # None
    /\ args.file_path \in ExistingFiles
    /\ outcome = "ValueError"

\* C2 as stated: upload_video of a path that does not exist raises
\* FileNotFoundError and calls nothing, whatever the session's state.
C2_Original ==
    (op = "upload_video" /\ args.file_path \notin ExistingFiles) =>
        (outcome = "FileNotFoundError" /\ calls = <<>>)

\* C2 amended: on an authenticated session, upload_video of a path that does
\* not exist raises FileNotFoundError and calls nothing; on an unauthenticated
\* one it raises ValueError, and calls nothing either.
C2_MissingFileFails ==
    (op = "upload_video" /\ args.file_path \notin ExistingFiles) =>
        /\ calls = <<>> /\ pc = "idle" /\ result = None
        /\ outcome = IF youtube = None THEN "ValueError" ELSE "FileNotFoundError"

C2_Witness ==
    /\ op = "upload_video" /\ youtube # None
    /\ args.file_path \notin ExistingFiles
    /\ outcome = "FileNotFoundError"

\* C3: the upload loop returns only on a final response: while upload_video
\* runs every result so far is progress-only, and when it has returned, the
\* last of its next_chunk calls, and only the last, produced a response, which
\* is the value returned (k progress-only results, then the final one: k+1
\* calls, none after it).
C3_LoopRunsToFinalResponse ==
    (op = "upload_video" /\ outcome \in {"running", "returned"}) =>
        /\ \A i \in 1..Len(ChunkCalls) :
              (ChunkCalls[i].result.response # None)
                  <=> (outcome = "returned" /\ i = Len(ChunkCalls))
        /\ outcome = "running" => (pc = "upload_loop" /\ result = None)
        /\ outcome = "returned" =>
              /\ pc = "idle"
              /\ Len(ChunkCalls) >= 1
              /\ result # None
              /\ result = ChunkCalls[Len(ChunkCalls)].result.response

C3_Witness ==
    /\ op = "upload_video" /\ outcome = "returned"
    /\ Len(ChunkCalls) >= 3
    /\ result = Some([id |-> "xyz789"])

\* C4: the first collaborator call of an authenticated upload_video of an
\* existing file is the insert request, whose body carries the title and the
\* description given, the tags given (none when omitted), categoryId "22",
\* the privacy status given ("private" when omitted, anything else as is) and
\* selfDeclaredMadeForKids false.
C4_RequestBody ==
    (op = "upload_video" /\ youtube # None /\ args.file_path \in ExistingFiles) =>
        /\ Len(calls) >= 1
        /\ calls[1].fn = "videos.insert"
        /\ calls[1].media_body.file = args.file_path
        /\ DOMAIN calls[1].body = {"snippet", "status"}
        /\ calls[1].body.snippet =
              [title |-> args.title,
               description |-> args.description,
               tags |-> IF args.tags = None THEN <<>> ELSE args.tags.val,
               categoryId |-> "22"]
        /\ calls[1].body.status =
              [privacyStatus |-> IF args.privacy_status = None
                                   THEN "private" ELSE args.privacy_status.val,
               selfDeclaredMadeForKids |-> FALSE]

C4_Witness ==
    /\ op = "upload_video" /\ youtube # None /\ outcome = "running"
    /\ args.tags = Some(<<"a", "b">>)
    /\ args.privacy_status = Some("bogus")
    /\ calls[1].body.status.privacyStatus = "bogus"

\* the response execute() handed to the finished query
QueryResponse == calls[2].response

\* C5 as stated: get_channel_stats returns {} when the item list is empty and,
\* for every other response, the statistics of the first item.
C5_Original ==
    (op = "get_channel_stats" /\ youtube # None /\ QueryResponse # ExecuteFailure) =>
        IF "items" \in DOMAIN QueryResponse /\ QueryResponse.items = <<>>
          THEN outcome = "returned" /\ result = Some(EmptyDict)
          ELSE /\ outcome = "returned"
               /\ "items" \in DOMAIN QueryResponse
               /\ "statistics" \in DOMAIN QueryResponse.items[1]
               /\ result = Some(QueryResponse.items[1].statistics)

\* C5 amended: get_channel_stats returns {} when the response has no item list
\* or an empty one, and the statistics of the first item when the list is not
\* empty and its first item has statistics (KeyError when it has none).
C5_ChannelStats ==
    (op = "get_channel_stats" /\ youtube # None /\ QueryResponse # ExecuteFailure) =>
        IF "items" \notin DOMAIN QueryResponse THEN
            outcome = "returned" /\ result = Some(EmptyDict)
        ELSE IF QueryResponse.items = <<>> THEN
            outcome = "returned" /\ result = Some(EmptyDict)
        ELSE IF "statistics" \in DOMAIN QueryResponse.items[1] THEN
            outcome = "returned" /\ result = Some(QueryResponse.items[1].statistics)
        ELSE
            outcome = "KeyError" /\ result = None

C5_Witness ==
    /\ op = "get_channel_stats" /\ youtube # None /\ outcome = "returned"
    /\ QueryResponse # ExecuteFailure
    /\ "items" \in DOMAIN QueryResponse
    /\ Len(QueryResponse.items) = 2
    /\ result = Some(Stats2)

\* C6: an authenticated list_videos(max_results=N) builds one search request
\* whose maxResults is N (50 when omitted), executes it once, and returns the
\* response's items in their order, or the empty list when it has none.
C6_ListVideos ==
    (op = "list_videos" /\ youtube # None) =>
        /\ Len(calls) = 2
        /\ calls[1].fn = "search.list"
        /\ calls[1].maxResults =
              (IF args.max_results = None THEN 50 ELSE args.max_results.val)
        /\ calls[2].fn = "execute"
        /\ QueryResponse # ExecuteFailure =>
              /\ outcome = "returned"
              /\ result = Some(IF "items" \in DOMAIN QueryResponse
                                 THEN QueryResponse.items ELSE <<>>)

C6_Witness ==
    /\ op = "list_videos" /\ youtube # None /\ outcome = "returned"
    /\ args.max_results = Some(100)
    /\ result = Some(<<VideoItem2, VideoItem1>>)

\* the transport of the scenario: 0.5, 0.9, then the final response
Scenario ==
    /\ op = "upload_video"
    /\ ChunkHistory = <<ProgressOnly(50), ProgressOnly(90), Final([id |-> "abc123"])>>

\* C7 as stated: the scenario prints three progress lines and returns the
\* final response.
C7_Original ==
    Scenario =>
        /\ outcome = "returned"
        /\ Len(printed) = 3
        /\ result = Some([id |-> "abc123"])

\* C7 amended: the scenario prints two progress lines, "Upload progress: 50%"
\* and "Upload progress: 90%", none for the final response, and returns the
\* final response.
C7_TwoProgressLines ==
    Scenario =>
        /\ outcome = "returned"
        /\ printed = << <<"Upload progress: ", 50, "%">>,
                        <<"Upload progress: ", 90, "%">> >>
        /\ result = Some([id |-> "abc123"])

C7_Witness == Scenario /\ outcome = "returned" /\ pc = "idle"

\* C8: self.youtube is non-null exactly when self.credentials is.
C8_HandleIffCredentials == (youtube # None) <=> (credentials # None)

\* C9: a next_chunk call that raises is the last call of the upload:
\* upload_video is over with that exception, has returned nothing, and has
\* printed only the lines of the chunks before it.
C9_ChunkFailurePropagates ==
    op = "upload_video" =>
        \A i \in 1..Len(calls) :
            (calls[i].fn = "next_chunk" /\ calls[i].result.kind = "error") =>
                /\ i = Len(calls)
                /\ outcome = "HttpError"
                /\ pc = "idle"
                /\ result = None
                /\ Len(printed) = i - 2

C9_Witness ==
    /\ op = "upload_video" /\ outcome = "HttpError"
    /\ Len(ChunkCalls) = 3
    /\ Len(printed) = 2

\* C10 as stated: the session starts unauthenticated, a handle once set is
\* never changed again, and the three remote operations change no field.
C10_Original ==
    /\ youtube = None /\ credentials = None
    /\ [][ /\ youtube # None => youtube' = youtube
           /\ op' \in RemoteOps => UNCHANGED <<credentials, youtube>> ]_vars

\* C10 amended: the session starts unauthenticated; a handle once set is never
\* null again; only an authenticate() that succeeds changes it (a repeated one
\* replaces it by a new handle); and the three remote operations change no
\* field.
C10_OneWay ==
    /\ youtube = None /\ credentials = None
    /\ [][ /\ youtube # None => youtube' # None
           /\ youtube' # youtube => (op' = "authenticate" /\ outcome' = "returned")
           /\ op' \in RemoteOps => UNCHANGED <<credentials, youtube>> ]_vars

C10_Witness ==
    /\ youtube = Some(2)
    /\ op = "upload_video" /\ outcome = "HttpError"

====
